---------------------------- MODULE Spec2Model ----------------------------
(***************************************************************************)
(* Model of the components of the RLlib mini-course notebooks:             *)
(*                                                                         *)
(*   - the GuessNumber gymnasium environment, its agent and the loop that  *)
(*     drives them (lesson 1),                                             *)
(*   - PPOTorchLearner (the learner notebook), and                         *)
(*   - DiscreteTorchModule and PPOTorchRLModule.compute_values (lesson 4). *)
(*                                                                         *)
(* Each component has its own specification over the shared variables:     *)
(*   Spec         the environment driven by arbitrary reset()/step() calls *)
(*   SpecLoss     the PPO loss applied to bounded batches and              *)
(*                configurations, one call each                            *)
(*   SpecLearner  calls of the loss interleaved with updates of the KL     *)
(*                coefficient                                              *)
(*   SpecKlTensor updates of one KL coefficient as a float32 tensor        *)
(*   SpecModule   forward passes of DiscreteTorchModule                    *)
(*   SpecValues   one call of PPOTorchRLModule.compute_values              *)
(*   SpecLoop     the episode loop of guess_the_number_agent               *)
(*   SpecLoopFair SpecLoop with a fair random number generator             *)
(*   SpecReport   one episode of the loop with the accounting that goes    *)
(*                into report_performance                                  *)
(***************************************************************************)
EXTENDS Integers, Sequences, FiniteSets, TLC

VARIABLES
    env,                \* the GuessNumber instance: its attributes
    ret,                \* what the last reset()/step() called on env directly
                        \* (not by the episode loop) returned
    wrong_since_reset,  \* history: non-winning direct step() calls since the
                        \* last reset()
    config,             \* the PPOConfig handed to compute_loss_for_module
    batch,              \* the train batch (with the module's forward outputs)
    learner,            \* the PPOTorchLearner's own state
    loss,               \* the last compute_loss_for_module call and its locals
    tensor,             \* one module's KL coefficient as the float32 tensor
                        \* _update_module_kl_coeff multiplies in place
    module,             \* the DiscreteTorchModule: its policy network
    fwd,                \* the last forward pass of module and what it returned
    values,             \* a PPOTorchRLModule, the dict objects of its caller
                        \* and the last compute_values call
    loop,               \* the locals of the episode loop: its position, the
                        \* episode and what env returned last
    report              \* the accounting locals of the episode loop
                        \* (total_reward, right_action, report_performance)

env_vars == <<env, ret, wrong_since_reset>>

loss_vars == <<config, batch, learner, loss, tensor>>

module_vars == <<module, fwd, values>>

loop_vars == <<loop, report>>

vars ==
    <<env, ret, wrong_since_reset, config, batch, learner, loss, tensor,
      module, fwd, values, loop, report>>

\* What the variables of a component hold in a specification that does not
\* exercise it: a learner or a module that was never built.
NotBuilt == "not built"

(***************************************************************************)
(* GuessNumber (lesson_1/1-gymnasium_environment.ipynb)                    *)
(***************************************************************************)

\* np.random.randint(100) and gym.spaces.Discrete(100): the numbers 0..99
N == 100

\* first component of the observation ("0: starting game, 1: too low,
\* 2: correct, 3: too high")
START == 0
TOO_LOW == 1
CORRECT == 2
TOO_HIGH == 3

\* Most non-winning steps of one episode the model follows.
MaxWrong == 2

\* self.action_space = gym.spaces.Discrete(100)
action_space == 0 .. (N - 1)

\* The integers a caller passes to step(): every member of the action
\* space, and two integers outside it.
ActionInputs == action_space \cup {-1, N + 50}

\* self.observation_space = gym.spaces.MultiDiscrete(nvec=[4, 4]): the
\* pairs whose components are both below 4
observation_space == {<<tip, number>> : tip \in 0 .. 3, number \in 0 .. 3}

\* The values np.random.randint(100) can return.
randint == 0 .. (N - 1)

\* A call's result.  call: the method called; raised: whether it raised
\* instead of returning; the remaining fields are the returned tuple
\* (reset() returns only the observation and info: its other fields keep
\* the values below and are never read); reset_from: the episode state a
\* reset() was called in.
NoReturn ==
    [call |-> "none", raised |-> FALSE, action |-> 0, observation |-> <<0, 0>>,
     reward |-> 0, terminated |-> FALSE, truncated |-> FALSE,
     reset_from |-> "FRESH"]

\* The episode state of spec section 4.1, read off the last call.
Phase ==
    CASE ret.call = "none" -> "FRESH"
      [] ret.call = "reset" -> "START"
      [] ret.call = "step" /\ ret.terminated -> "DONE"
      [] OTHER -> "IN_PROGRESS"

\* GuessNumber.__init__: self.number is drawn; steps_without_winning is
\* not an attribute yet ({} stands for the missing attribute, {n} for the
\* value n).
init(number) == [number |-> number, steps_without_winning |-> {}]

\* reset() that forgets to clear the step counter.
reset_keeps_counter(self, number) ==
    [self |-> [number |-> number,
               steps_without_winning |-> self.steps_without_winning],
     observation |-> <<START, 0>>]

\* GuessNumber.reset with the number np.random.randint(100) returned.
reset(self, number) ==
    [self |-> [number |-> number, steps_without_winning |-> {0}],
     observation |-> <<START, 0>>]

\* step() comparing with <= : the correct guess is reported too low.
step_le(self, action) ==
    IF action <= self.number
      THEN [self |-> self, observation |-> <<TOO_LOW, action>>, reward |-> -1,
            terminated |-> FALSE, truncated |-> FALSE]
    ELSE [self |-> self, observation |-> <<TOO_HIGH, action>>, reward |-> -1,
          terminated |-> FALSE, truncated |-> FALSE]

\* step() with the two hints exchanged.
step_hints_swapped(self, action) ==
    IF action < self.number
      THEN [self |-> self, observation |-> <<TOO_HIGH, action>>, reward |-> -1,
            terminated |-> FALSE, truncated |-> FALSE]
    ELSE IF action > self.number
      THEN [self |-> self, observation |-> <<TOO_LOW, action>>, reward |-> -1,
            terminated |-> FALSE, truncated |-> FALSE]
    ELSE [self |-> self, observation |-> <<CORRECT, action>>, reward |-> 0,
          terminated |-> TRUE, truncated |-> FALSE]

\* step() that truncates the episode on a wrong guess.
step_truncating(self, action) ==
    IF action < self.number
      THEN [self |-> self, observation |-> <<TOO_LOW, action>>, reward |-> -1,
            terminated |-> FALSE, truncated |-> TRUE]
    ELSE IF action > self.number
      THEN [self |-> self, observation |-> <<TOO_HIGH, action>>, reward |-> -1,
            terminated |-> FALSE, truncated |-> TRUE]
    ELSE [self |-> self, observation |-> <<CORRECT, action>>, reward |-> 0,
          terminated |-> TRUE, truncated |-> FALSE]

\* step() that counts the non-winning steps in self.steps_without_winning.
step_counting(self, action) ==
    LET counted ==
            [self EXCEPT !.steps_without_winning = {n + 1 : n \in @}]
    IN IF action < self.number
         THEN [self |-> counted, observation |-> <<TOO_LOW, action>>,
               reward |-> -1, terminated |-> FALSE, truncated |-> FALSE]
       ELSE IF action > self.number
         THEN [self |-> counted, observation |-> <<TOO_HIGH, action>>,
               reward |-> -1, terminated |-> FALSE, truncated |-> FALSE]
       ELSE [self |-> self, observation |-> <<CORRECT, action>>, reward |-> 0,
             terminated |-> TRUE, truncated |-> FALSE]

\* GuessNumber.step: the returned tuple; no attribute of self is assigned.
step(self, action) ==
    IF action < self.number
      THEN [self |-> self, observation |-> <<TOO_LOW, action>>, reward |-> -1,
            terminated |-> FALSE, truncated |-> FALSE]
    ELSE IF action > self.number
      THEN [self |-> self, observation |-> <<TOO_HIGH, action>>, reward |-> -1,
            terminated |-> FALSE, truncated |-> FALSE]
    ELSE [self |-> self, observation |-> <<CORRECT, action>>, reward |-> 0,
          terminated |-> TRUE, truncated |-> FALSE]

InitEnv ==
    /\ \E number \in randint : env = init(number)
    /\ ret = NoReturn
    /\ wrong_since_reset = 0

\* env.reset()
Reset ==
    \E number \in randint :
        LET r == reset(env, number) IN
        /\ env' = r.self
        /\ ret' = [NoReturn EXCEPT !.call = "reset",
                                   !.observation = r.observation,
                                   !.reset_from = Phase]
        /\ wrong_since_reset' = 0
        /\ UNCHANGED <<loss_vars, module_vars, loop_vars>>

\* env.step(action); the model follows at most MaxWrong non-winning steps
\* between two resets.
Step ==
    \E action \in ActionInputs :
        LET r == step(env, action) IN
        /\ r.terminated \/ wrong_since_reset < MaxWrong
        /\ env' = r.self
        /\ ret' = [call |-> "step", raised |-> FALSE, action |-> action,
                   observation |-> r.observation, reward |-> r.reward,
                   terminated |-> r.terminated, truncated |-> r.truncated,
                   reset_from |-> NoReturn.reset_from]
        /\ wrong_since_reset' =
              IF r.terminated THEN wrong_since_reset ELSE wrong_since_reset + 1
        /\ UNCHANGED <<loss_vars, module_vars, loop_vars>>

(***************************************************************************)
(* Numbers.  A tensor element is an exact rational [n, d] in lowest terms  *)
(* with d > 0, or NaN (d = 0): float rounding is not modelled.             *)
(***************************************************************************)

RECURSIVE GCD(_, _)
GCD(a, b) == IF b = 0 THEN a ELSE GCD(b, a % b)

Abs(x) == IF x < 0 THEN -x ELSE x

Rat(n, d) ==
    LET g == GCD(Abs(n), d) IN [n |-> n \div g, d |-> d \div g]

NaN == [n |-> 0, d |-> 0]

IsNaN(x) == x.d = 0

Zero == [n |-> 0, d |-> 1]

One == [n |-> 1, d |-> 1]

\* Sums and products cancel common factors first: the integers stay small.
RAdd(x, y) ==
    IF IsNaN(x) \/ IsNaN(y) THEN NaN
    ELSE LET g == GCD(x.d, y.d)
         IN Rat(x.n * (y.d \div g) + y.n * (x.d \div g), (x.d \div g) * y.d)

RNeg(x) == [n |-> -x.n, d |-> x.d]

RSub(x, y) == RAdd(x, RNeg(y))

RMul(x, y) ==
    IF IsNaN(x) \/ IsNaN(y) THEN NaN
    ELSE LET g == GCD(Abs(x.n), y.d)
             h == GCD(Abs(y.n), x.d)
         IN Rat((x.n \div g) * (y.n \div h), (x.d \div h) * (y.d \div g))

\* Tensor division.  0/0 is NaN; it raises nothing.  (x/0 with x # 0 is an
\* infinity; the loss only divides a sum by the number of its terms, so a
\* zero divisor comes with a zero dividend.)
RDiv(x, y) ==
    IF IsNaN(x) \/ IsNaN(y) \/ y.n = 0 THEN NaN
    ELSE IF y.n > 0 THEN RMul(x, [n |-> y.d, d |-> y.n])
    ELSE RMul(x, [n |-> -y.d, d |-> -y.n])

\* x <= y on numbers that are not NaN
RLe(x, y) == x.n * y.d <= y.n * x.d

RLt(x, y) == x.n * y.d < y.n * x.d

\* torch.min / torch.max of two elements
RMin(x, y) == IF RLe(x, y) THEN x ELSE y

RMax(x, y) == IF RLe(x, y) THEN y ELSE x

\* torch.clamp(x, lo, hi) = min(max(x, lo), hi)
Clamp(x, lo, hi) == RMin(RMax(x, lo), hi)

\* torch.pow(x, 2.0)
Square(x) == RMul(x, x)

\* A log-probability is kept as the probability it is the logarithm of:
\* Ln(p) - Ln(q) is the logarithm of p/q, and Exp undoes Ln.
Ln(p) == [ln |-> p]

LnSub(x, y) == [ln |-> RDiv(x.ln, y.ln)]

Exp(x) == x.ln

\* The natural logarithm of the probability ratios the model meets, in
\* thousandths (ln 2 = 0.693, ln 3 = 1.099), in lowest terms.
NatLog(x) ==
    CASE x = [n |-> 1, d |-> 1] -> [n |-> 0, d |-> 1]
      [] x = [n |-> 1, d |-> 2] -> [n |-> -693, d |-> 1000]
      [] x = [n |-> 2, d |-> 1] -> [n |-> 693, d |-> 1000]
      [] x = [n |-> 1, d |-> 4] -> [n |-> -693, d |-> 500]
      [] x = [n |-> 4, d |-> 1] -> [n |-> 693, d |-> 500]
      [] x = [n |-> 3, d |-> 4] -> [n |-> -287, d |-> 1000]
      [] x = [n |-> 4, d |-> 3] -> [n |-> 287, d |-> 1000]
      [] x = [n |-> 3, d |-> 2] -> [n |-> 203, d |-> 500]
      [] x = [n |-> 2, d |-> 3] -> [n |-> -203, d |-> 500]
      [] x = [n |-> 1, d |-> 3] -> [n |-> -1099, d |-> 1000]
      [] x = [n |-> 3, d |-> 1] -> [n |-> 1099, d |-> 1000]

\* sum of data[i] over the indices i <= upto of data that are in keep
RECURSIVE SumOver(_, _, _)
SumOver(data, keep, upto) ==
    IF upto = 0 THEN Zero
    ELSE IF upto \in keep
      THEN RAdd(SumOver(data, keep, upto - 1), data[upto])
    ELSE SumOver(data, keep, upto - 1)

(***************************************************************************)
(* Action distributions (TorchCategorical).  Logits are kept as the        *)
(* weights w they are the logarithms of: probs = softmax(ln w) = w / sum w *)
(***************************************************************************)

RECURSIVE SumWeights(_, _)
SumWeights(w, upto) == IF upto = 0 THEN 0 ELSE w[upto] + SumWeights(w, upto - 1)

from_logits(w) ==
    [probs |-> [a \in 1 .. Len(w) |-> Rat(w[a], SumWeights(w, Len(w)))]]

\* dist.logp(action): actions are numbered from 0
logp(dist, action) == Ln(dist.probs[action + 1])

\* dist.entropy() = - sum_a p(a) ln p(a)
entropy(dist) ==
    RNeg(SumOver([a \in 1 .. Len(dist.probs) |->
                     RMul(dist.probs[a], NatLog(dist.probs[a]))],
                 1 .. Len(dist.probs), Len(dist.probs)))

\* p.kl(q) = sum_a p(a) ln (p(a) / q(a))
kl(p, q) ==
    SumOver([a \in 1 .. Len(p.probs) |->
                RMul(p.probs[a], NatLog(RDiv(p.probs[a], q.probs[a])))],
            1 .. Len(p.probs), Len(p.probs))

(***************************************************************************)
(* PPOTorchLearner.compute_loss_for_module                                 *)
(*                                                                         *)
(* A batch is [rows, has_loss_mask]; row i holds timestep i's entry of     *)
(* every column the loss reads, together with the module's outputs for     *)
(* that timestep (fwd_out[ACTION_DIST_INPUTS] and module.compute_values).  *)
(* The tensor operations are elementwise: each is given for one timestep   *)
(* (one row), and a tensor is the function i |-> its value on row i.       *)
(***************************************************************************)

T(b) == Len(b.rows)

\* torch.mean whatever the mask says
plain_mean(b, data) ==
    RDiv(SumOver(data, 1 .. T(b), T(b)), Rat(T(b), 1))

\* the masked sum divided by the batch size instead of num_valid
masked_sum_over_T(b, data) ==
    IF b.has_loss_mask
      THEN LET mask == {i \in 1 .. T(b) : b.rows[i].loss_mask}
           IN RDiv(SumOver(data, mask, T(b)), Rat(T(b), 1))
    ELSE RDiv(SumOver(data, 1 .. T(b), T(b)), Rat(T(b), 1))

\* possibly_masked_mean: with Columns.LOSS_MASK in the batch,
\* torch.sum(data_[mask]) / num_valid with num_valid = torch.sum(mask);
\* otherwise torch.mean.
possibly_masked_mean(b, data) ==
    IF b.has_loss_mask
      THEN LET mask == {i \in 1 .. T(b) : b.rows[i].loss_mask}
               num_valid == Cardinality(mask)
           IN RDiv(SumOver(data, mask, T(b)), Rat(num_valid, 1))
    ELSE RDiv(SumOver(data, 1 .. T(b), T(b)), Rat(T(b), 1))

\* logp_ratio = exp(curr_action_dist.logp(actions) - batch[ACTION_LOGP])
logp_ratio(row) ==
    Exp(LnSub(logp(from_logits(row.curr_logits), row.actions), row.action_logp))

\* action_kl = prev_action_dist.kl(curr_action_dist)
action_kl(row) ==
    kl(from_logits(row.prev_logits), from_logits(row.curr_logits))

\* curr_entropy = curr_action_dist.entropy()
curr_entropy(row) == entropy(from_logits(row.curr_logits))

\* the surrogate with torch.max in place of torch.min
surrogate_loss_max(cfg, row) ==
    RMax(RMul(row.advantages, logp_ratio(row)),
         RMul(row.advantages,
              Clamp(logp_ratio(row), RSub(One, cfg.clip_param),
                    RAdd(One, cfg.clip_param))))

\* the surrogate with the ratio clipped from below at 1
surrogate_loss_lower_one(cfg, row) ==
    RMin(RMul(row.advantages, logp_ratio(row)),
         RMul(row.advantages,
              Clamp(logp_ratio(row), One, RAdd(One, cfg.clip_param))))

\* surrogate_loss = torch.min(advantages * logp_ratio,
\*     advantages * torch.clamp(logp_ratio, 1 - clip_param, 1 + clip_param))
surrogate_loss(cfg, row) ==
    RMin(RMul(row.advantages, logp_ratio(row)),
         RMul(row.advantages,
              Clamp(logp_ratio(row), RSub(One, cfg.clip_param),
                    RAdd(One, cfg.clip_param))))

\* vf_loss = torch.pow(value_fn_out - batch[VALUE_TARGETS], 2.0)
vf_loss(row) == Square(RSub(row.value_fn_out, row.value_targets))

\* the value loss left unclipped
vf_loss_clipped_no_clamp(cfg, row) ==
    IF cfg.use_critic THEN vf_loss(row) ELSE Zero

\* the value loss computed and clipped whatever use_critic says
vf_loss_clipped_without_critic(cfg, row) ==
    Clamp(vf_loss(row), Zero, cfg.vf_clip_param)

\* vf_loss_clipped = torch.clamp(vf_loss, 0, vf_clip_param) under
\* use_critic, the scalar z = 0.0 (broadcast) otherwise
vf_loss_clipped(cfg, row) ==
    IF cfg.use_critic THEN Clamp(vf_loss(row), Zero, cfg.vf_clip_param)
    ELSE Zero

\* What the loss computes for one timestep, before any averaging.
timestep_locals(cfg, row) ==
    [logp_ratio |-> logp_ratio(row),
     action_kl |-> action_kl(row),
     curr_entropy |-> curr_entropy(row),
     surrogate_loss |-> surrogate_loss(cfg, row),
     vf_loss |-> vf_loss(row),
     vf_loss_clipped |-> vf_loss_clipped(cfg, row)]

\* -surrogate_loss + vf_loss_coeff * vf_loss_clipped
\*   - entropy_coeff_scheduler.get_current_value() * curr_entropy
\* on one timestep with the locals loc
loss_term(lrn, cfg, loc) ==
    RSub(RAdd(RNeg(loc.surrogate_loss),
              RMul(cfg.vf_loss_coeff, loc.vf_loss_clipped)),
         RMul(lrn.entropy_coeff, loc.curr_entropy))

\* the KL statistic computed whether or not use_kl_loss is set
mean_kl_loss_always(cfg, b, loc) ==
    possibly_masked_mean(b, [i \in 1 .. T(b) |-> loc[i].action_kl])

\* mean_kl_loss: the averaged action_kl when config.use_kl_loss, the
\* constant 0.0 otherwise
mean_kl_loss(cfg, b, loc) ==
    IF cfg.use_kl_loss
      THEN possibly_masked_mean(b, [i \in 1 .. T(b) |-> loc[i].action_kl])
    ELSE Zero

\* the total loss with the KL penalty added whatever use_kl_loss says
total_loss_kl_always(lrn, cfg, b, loc) ==
    RAdd(possibly_masked_mean(b,
            [i \in 1 .. T(b) |-> loss_term(lrn, cfg, loc[i])]),
         RMul(lrn.curr_kl_coeff, mean_kl_loss_always(cfg, b, loc)))

\* total_loss = possibly_masked_mean(loss_term), then
\* += curr_kl_coeffs_per_module[module_id] * mean_kl_loss under use_kl_loss
total_loss(lrn, cfg, b, loc) ==
    LET mean == possibly_masked_mean(b,
                    [i \in 1 .. T(b) |-> loss_term(lrn, cfg, loc[i])])
    IN IF cfg.use_kl_loss
         THEN RAdd(mean, RMul(lrn.curr_kl_coeff, mean_kl_loss(cfg, b, loc)))
       ELSE mean

\* self.metrics.log_dict({...}, key=module_id, window=1): the logged stats
\* (explained_variance is RLlib's and is left out)
logged_metrics(cfg, b, loc) ==
    [policy_loss |->
        RNeg(possibly_masked_mean(b,
                [i \in 1 .. T(b) |-> loc[i].surrogate_loss])),
     vf_loss |->
        IF cfg.use_critic
          THEN possibly_masked_mean(b,
                  [i \in 1 .. T(b) |-> loc[i].vf_loss_clipped])
        ELSE Zero,
     vf_loss_unclipped |->
        IF cfg.use_critic
          THEN possibly_masked_mean(b, [i \in 1 .. T(b) |-> loc[i].vf_loss])
        ELSE Zero,
     entropy |->
        possibly_masked_mean(b, [i \in 1 .. T(b) |-> loc[i].curr_entropy]),
     mean_kl_loss |-> mean_kl_loss(cfg, b, loc)]

(***************************************************************************)
(* The inputs of the loss                                                  *)
(***************************************************************************)

\* Most timesteps in a batch.
MaxT == 2

\* The policy and value networks on the two observations the model feeds:
\* logits ln 1, ln 1 and value 11 on observation 0, logits ln 1, ln 3 and
\* value 3 on observation 1.  With the value target 1 the squared errors
\* are 100 and 4.
PolicyLogits(obs) == IF obs = 0 THEN <<1, 1>> ELSE <<1, 3>>

ValueOut(obs) == IF obs = 0 THEN Rat(11, 1) ELSE Rat(3, 1)

\* A timestep as the sampling policy (uniform over the two actions) recorded
\* it, with the current module's outputs on its observation.
Row(obs, action, adv, masked_in) ==
    [actions |-> action,
     advantages |-> Rat(adv, 1),
     action_logp |-> Ln(Rat(1, 2)),
     prev_logits |-> <<1, 1>>,
     value_targets |-> Rat(1, 1),
     curr_logits |-> PolicyLogits(obs),
     value_fn_out |-> ValueOut(obs),
     loss_mask |-> masked_in]

\* A masked-out timestep that differs from every timestep of Rows in its
\* old log-probability, old logits, value target and advantage.
OtherRow ==
    [actions |-> 1,
     advantages |-> Rat(3, 1),
     action_logp |-> Ln(Rat(1, 4)),
     prev_logits |-> <<1, 3>>,
     value_targets |-> Rat(0, 1),
     curr_logits |-> <<1, 1>>,
     value_fn_out |-> Rat(3, 1),
     loss_mask |-> FALSE]

\* The (observation, action) pairs of the rows: the probability ratios are
\* 1, 1/2 and 3/2.
ObsActions == {<<0, 0>>, <<1, 0>>, <<1, 1>>}

\* The timesteps: every pair with either advantage when they count, two
\* of them when they are masked out (what a masked-out timestep holds is
\* never read).
Rows ==
    {Row(oa[1], oa[2], adv, TRUE) : oa \in ObsActions, adv \in {-1, 1}}
    \cup {Row(0, 0, 1, FALSE), Row(1, 1, -1, FALSE)}

\* the batches of len timesteps: with a loss mask, or without one (their
\* rows carry loss_mask = TRUE, which nothing reads)
BatchesOfLen(len) ==
    {[rows |-> rs, has_loss_mask |-> TRUE] : rs \in [1 .. len -> Rows]}
    \cup
    {[rows |-> rs, has_loss_mask |-> FALSE] :
        rs \in [1 .. len -> {r \in Rows : r.loss_mask}]}

Batches == UNION {BatchesOfLen(len) : len \in 1 .. MaxT}

\* The configurations: with one vf_clip_param and vf_loss_coeff, and,
\* without a critic and for one clip_param, also with another of each.
Configs ==
    LET base ==
            [clip_param : {Rat(0, 1), Rat(1, 4), Rat(1, 2)},
             use_kl_loss : BOOLEAN,
             use_critic : BOOLEAN,
             vf_clip_param : {Rat(10, 1)},
             vf_loss_coeff : {Rat(1, 2)},
             kl_target : {Rat(1, 100)}]
    IN base \cup
       {[c EXCEPT !.vf_clip_param = Rat(1, 1), !.vf_loss_coeff = Rat(2, 1)] :
           c \in {d \in base : ~d.use_critic /\ d.clip_param = Rat(1, 4)}}

\* module_id of the module the loss is computed for, and the module ids of
\* the learner (curr_kl_coeffs_per_module has an entry for each)
DEFAULT_MODULE_ID == "default_policy"

ModuleIds == {DEFAULT_MODULE_ID, "p1"}

OtherModuleIds == ModuleIds \ {DEFAULT_MODULE_ID}

\* the learner: the KL coefficient of the module the loss is computed for,
\* the current value of its entropy-coefficient scheduler, the stats logged
\* for that module (logged: the loss stats were logged; kl_coeff_logged:
\* the KL coefficient was), the KL coefficients of the other modules and
\* their logged values, whether the non-finite-KL warning was emitted, and
\* history: the number of KL-coefficient updates made, the arguments of the
\* last one, and per module the calls with kl_loss above 2 * kl_target and
\* below 0.5 * kl_target
NoMetrics ==
    [policy_loss |-> Zero, vf_loss |-> Zero, vf_loss_unclipped |-> Zero,
     entropy |-> Zero, mean_kl_loss |-> Zero, curr_kl_coeff |-> Zero]

Learners ==
    [curr_kl_coeff : {Rat(1, 5)},
     entropy_coeff : {Rat(1, 100)},
     metrics : {NoMetrics},
     logged : {FALSE},
     kl_coeff_logged : {FALSE},
     other_kl_coeffs : {[m \in OtherModuleIds |-> Rat(1, 2)]},
     other_logged_kl_coeffs : {[m \in OtherModuleIds |-> Zero]},
     warned : {FALSE},
     kl_updates : {0},
     last_update : {[module_id |-> DEFAULT_MODULE_ID, kl_loss |-> Zero]},
     above : {[m \in ModuleIds |-> 0]},
     below : {[m \in ModuleIds |-> 0]}]

\* self.curr_kl_coeffs_per_module, and the values logged under
\* (module_id, LEARNER_RESULTS_CURR_KL_COEFF_KEY)
curr_kl_coeffs_per_module(lrn) ==
    [m \in ModuleIds |->
        IF m = DEFAULT_MODULE_ID THEN lrn.curr_kl_coeff
                                 ELSE lrn.other_kl_coeffs[m]]

logged_kl_coeffs(lrn) ==
    [m \in ModuleIds |->
        IF m = DEFAULT_MODULE_ID THEN lrn.metrics.curr_kl_coeff
                                 ELSE lrn.other_logged_kl_coeffs[m]]

\* timestep_locals on every configuration and timestep of the model, as a
\* table (f @@ <<>> is f, enumerated once)
TimestepLocals ==
    [cr \in Configs \X (Rows \cup {OtherRow}) |-> timestep_locals(cr[1], cr[2])]
        @@ <<>>

\* compute_loss_for_module: the returned total loss, the tensors the claims
\* are about, whether module.compute_values was called (it is under
\* use_critic only), and the stats it logs
compute_loss_for_module(lrn, cfg, b) ==
    LET loc == [i \in 1 .. T(b) |-> TimestepLocals[<<cfg, b.rows[i]>>]] IN
    [total_loss |-> total_loss(lrn, cfg, b, loc),
     logp_ratio |-> [i \in 1 .. T(b) |-> loc[i].logp_ratio],
     surrogate_loss |-> [i \in 1 .. T(b) |-> loc[i].surrogate_loss],
     vf_loss |->
        IF cfg.use_critic THEN [i \in 1 .. T(b) |-> loc[i].vf_loss] ELSE <<>>,
     vf_loss_clipped |-> [i \in 1 .. T(b) |-> loc[i].vf_loss_clipped],
     compute_values_called |-> cfg.use_critic,
     metrics |-> logged_metrics(cfg, b, loc)]

\* A float32: sign s and the value m * 2^e with m < 2^24 and
\* F32_EMIN <= e <= F32_EMAX; 0 has m = 0, a subnormal m < 2^23 and
\* e = F32_EMIN; [m |-> 0, e |-> F32_EMAX + 1] stands for infinity.
F32_PRECISION == 24

F32_EMIN == -149

F32_EMAX == 104

\* n / 2^shift rounded to the nearest integer, a tie to the even one
RoundHalfEven(n, shift) ==
    IF shift <= 0 THEN n
    ELSE LET d == 2 ^ shift
             q == n \div d
             r == n % d
         IN IF 2 * r > d \/ (2 * r = d /\ q % 2 = 1) THEN q + 1 ELSE q

\* The bits of n beyond the precision (n < 2^26).
ExcessBits(n) ==
    IF n >= 2 ^ (F32_PRECISION + 1) THEN 2
    ELSE IF n >= 2 ^ F32_PRECISION THEN 1
    ELSE 0

\* rounding that flushes a subnormal result to zero
f32_round_flush_to_zero(s, n, e) ==
    LET shift == IF F32_EMIN - e > ExcessBits(n) THEN F32_EMIN - e
                 ELSE ExcessBits(n)
        q == RoundHalfEven(n, shift)
        m == IF q = 2 ^ F32_PRECISION THEN q \div 2 ELSE q
        exp == IF q = 2 ^ F32_PRECISION THEN e + shift + 1 ELSE e + shift
    IN IF m = 0 \/ m < 2 ^ (F32_PRECISION - 1) THEN [s |-> s, m |-> 0, e |-> F32_EMIN]
       ELSE IF exp > F32_EMAX THEN [s |-> s, m |-> 0, e |-> F32_EMAX + 1]
       ELSE [s |-> s, m |-> m, e |-> exp]

\* The float32 nearest to s * n * 2^e (n < 2^26), ties to even: the result
\* of a float32 multiplication whose exact product is that number.
f32_round(s, n, e) ==
    LET shift == IF F32_EMIN - e > ExcessBits(n) THEN F32_EMIN - e
                 ELSE ExcessBits(n)
        q == RoundHalfEven(n, shift)
        m == IF q = 2 ^ F32_PRECISION THEN q \div 2 ELSE q
        exp == IF q = 2 ^ F32_PRECISION THEN e + shift + 1 ELSE e + shift
    IN IF m = 0 THEN [s |-> s, m |-> 0, e |-> F32_EMIN]
       ELSE IF exp > F32_EMAX THEN [s |-> s, m |-> 0, e |-> F32_EMAX + 1]
       ELSE [s |-> s, m |-> m, e |-> exp]

F32IsInf(x) == x.e > F32_EMAX

\* curr_var.data *= 1.5 and curr_var.data *= 0.5 on a float32 tensor (1.5
\* is 3 * 2^-1); infinity and 0 stay what they are
f32_times(x, factor) ==
    IF F32IsInf(x) \/ x.m = 0 THEN x
    ELSE IF factor = "1.5" THEN f32_round(x.s, 3 * x.m, x.e - 1)
    ELSE IF factor = "0.5" THEN f32_round(x.s, x.m, x.e - 1)
    ELSE x

\* The coefficients a module starts with: 0.25, and the float32 nearest to
\* 0.2 (13421773 * 2^-26).
InitialKlCoeffs ==
    {[s |-> 1, m |-> 2 ^ 23, e |-> -25], [s |-> 1, m |-> 13421773, e |-> -26]}

\* Most updates that multiply the float32 coefficient in one behaviour of
\* SpecKlTensor.
MaxScalings == 150

\* The tensor curr_kl_coeffs_per_module[module_id] of one module.  x: its
\* value; logged: the value last logged ({} before the first update);
\* warned: the non-finite-KL warning was emitted; history: c0, the value it
\* started with, and above, below: the updates with kl_loss above
\* 2 * kl_target and below 0.5 * kl_target.
NoTensor ==
    [x |-> [s |-> 1, m |-> 2 ^ 23, e |-> -25],
     c0 |-> [s |-> 1, m |-> 2 ^ 23, e |-> -25],
     logged |-> {}, warned |-> FALSE, above |-> 0, below |-> 0]

\* What is known of the calls of the loss.  called, calls: whether and how
\* often it was called; raised: the last call raised instead of returning
\* (no statement of the method raises); total_loss: what the last call
\* returned; logp_ratio .. vf_loss_clipped: its local tensors; kl_coeff:
\* the KL coefficient the learner held when it was called; prev: total_loss
\* and kl_coeff of the call before it.
NoLoss ==
    [called |-> FALSE, calls |-> 0, raised |-> FALSE, total_loss |-> Zero,
     logp_ratio |-> <<>>, surrogate_loss |-> <<>>, vf_loss |-> <<>>,
     vf_loss_clipped |-> <<>>, compute_values_called |-> FALSE,
     kl_coeff |-> Zero,
     prev |-> [total_loss |-> Zero, kl_coeff |-> Zero]]

InitLoss ==
    /\ config \in Configs
    /\ batch \in Batches
    /\ learner \in Learners
    /\ loss = NoLoss
    /\ tensor = NotBuilt

\* Most calls of the loss, and most updates of the KL coefficient, in one
\* behaviour of SpecLearner.
MaxCalls == 2

MaxUpdates == 2

\* a call of the loss that also rescales the KL coefficient
ComputeLoss_rescales_kl_coeff ==
    /\ LET r == compute_loss_for_module(learner, config, batch) IN
        /\ loss' = [called |-> TRUE, calls |-> loss.calls + 1,
                    raised |-> FALSE, total_loss |-> r.total_loss,
                    logp_ratio |-> r.logp_ratio,
                    surrogate_loss |-> r.surrogate_loss,
                    vf_loss |-> r.vf_loss,
                    vf_loss_clipped |-> r.vf_loss_clipped,
                    compute_values_called |-> r.compute_values_called,
                    kl_coeff |-> learner.curr_kl_coeff,
                    prev |-> [total_loss |-> loss.total_loss,
                              kl_coeff |-> loss.kl_coeff]]
        /\ learner' = [learner EXCEPT !.metrics = r.metrics @@ learner.metrics,
                                      !.logged = TRUE,
                                      !.curr_kl_coeff = RMul(@, Rat(1, 2))]
    /\ UNCHANGED <<config, batch, tensor>>
    /\ UNCHANGED <<env_vars, module_vars, loop_vars>>

\* one call of compute_loss_for_module(module_id, config, batch, fwd_out):
\* the stats are logged under module_id (the store's other keys stay) and
\* the total loss is returned
ComputeLoss ==
    /\ LET r == compute_loss_for_module(learner, config, batch) IN
        /\ loss' = [called |-> TRUE, calls |-> loss.calls + 1,
                    raised |-> FALSE, total_loss |-> r.total_loss,
                    logp_ratio |-> r.logp_ratio,
                    surrogate_loss |-> r.surrogate_loss,
                    vf_loss |-> r.vf_loss,
                    vf_loss_clipped |-> r.vf_loss_clipped,
                    compute_values_called |-> r.compute_values_called,
                    kl_coeff |-> learner.curr_kl_coeff,
                    prev |-> [total_loss |-> loss.total_loss,
                              kl_coeff |-> loss.kl_coeff]]
        /\ learner' = [learner EXCEPT !.metrics = r.metrics @@ learner.metrics,
                                      !.logged = TRUE]
    /\ UNCHANGED <<config, batch, tensor>>
    /\ UNCHANGED <<env_vars, module_vars, loop_vars>>

\* The values of kl_loss the KL coefficient is updated with: not a number,
\* below, at, between, at and above the two thresholds 0.5 * kl_target and
\* 2.0 * kl_target.
KlLossInputs ==
    {NaN, Rat(0, 1), Rat(1, 200), Rat(1, 100), Rat(1, 50), Rat(1, 10)}

\* the update with inclusive thresholds
kl_coeff_factor_inclusive(cfg, kl_loss) ==
    IF ~IsNaN(kl_loss) /\ RLe(RMul(Rat(2, 1), cfg.kl_target), kl_loss)
      THEN "1.5"
    ELSE IF ~IsNaN(kl_loss) /\ RLe(kl_loss, RMul(Rat(1, 2), cfg.kl_target))
      THEN "0.5"
    ELSE "none"

\* the update taking a NaN kl_loss for a small one
kl_coeff_factor_nan_is_small(cfg, kl_loss) ==
    IF ~IsNaN(kl_loss) /\ RLt(RMul(Rat(2, 1), cfg.kl_target), kl_loss)
      THEN "1.5"
    ELSE IF IsNaN(kl_loss) \/ RLt(kl_loss, RMul(Rat(1, 2), cfg.kl_target))
      THEN "0.5"
    ELSE "none"

\* if kl_loss > 2.0 * config.kl_target: curr_var.data *= 1.5
\* elif kl_loss < 0.5 * config.kl_target: curr_var.data *= 0.5
\* The factor the branch taken multiplies with, "none" when neither is
\* taken.  A comparison with NaN is false.
kl_coeff_factor(cfg, kl_loss) ==
    IF ~IsNaN(kl_loss) /\ RLt(RMul(Rat(2, 1), cfg.kl_target), kl_loss)
      THEN "1.5"
    ELSE IF ~IsNaN(kl_loss) /\ RLt(kl_loss, RMul(Rat(1, 2), cfg.kl_target))
      THEN "0.5"
    ELSE "none"

\* _update_module_kl_coeff(module_id, config, kl_loss): the learner after
\* it (with the coefficients as exact numbers).  No statement of the method
\* raises.
update_module_kl_coeff(lrn, module_id, cfg, kl_loss) ==
    LET curr_var == curr_kl_coeffs_per_module(lrn)[module_id]
        factor == kl_coeff_factor(cfg, kl_loss)
        updated ==
            IF factor = "1.5" THEN RMul(curr_var, Rat(3, 2))
            ELSE IF factor = "0.5" THEN RMul(curr_var, Rat(1, 2))
            ELSE curr_var
        warned == [lrn EXCEPT !.warned = @ \/ IsNaN(kl_loss)]
    IN IF module_id = DEFAULT_MODULE_ID
         THEN [warned EXCEPT !.curr_kl_coeff = updated,
                             !.metrics.curr_kl_coeff = updated,
                             !.kl_coeff_logged = TRUE]
       ELSE [warned EXCEPT !.other_kl_coeffs[module_id] = updated,
                           !.other_logged_kl_coeffs[module_id] = updated]

\* kl_loss is a number above 2 * kl_target, or one below 0.5 * kl_target
AboveTarget(cfg, kl_loss) ==
    ~IsNaN(kl_loss) /\ RLt(RMul(Rat(2, 1), cfg.kl_target), kl_loss)

BelowTarget(cfg, kl_loss) ==
    ~IsNaN(kl_loss) /\ RLt(kl_loss, RMul(Rat(1, 2), cfg.kl_target))

\* one call of _update_module_kl_coeff; the model follows at most
\* MaxUpdates of them
UpdateModuleKlCoeff ==
    /\ learner.kl_updates < MaxUpdates
    /\ \E module_id \in ModuleIds, kl_loss \in KlLossInputs :
          learner' =
              [update_module_kl_coeff(learner, module_id, config, kl_loss)
                  EXCEPT !.kl_updates = @ + 1,
                         !.last_update = [module_id |-> module_id,
                                          kl_loss |-> kl_loss],
                         !.above[module_id] =
                             IF AboveTarget(config, kl_loss) THEN @ + 1 ELSE @,
                         !.below[module_id] =
                             IF BelowTarget(config, kl_loss) THEN @ + 1 ELSE @]
    /\ UNCHANGED <<config, batch, loss, tensor>>
    /\ UNCHANGED <<env_vars, module_vars, loop_vars>>

InitTensor ==
    \E c0 \in InitialKlCoeffs :
        tensor = [NoTensor EXCEPT !.x = c0, !.c0 = c0]

\* one call of _update_module_kl_coeff for that module, on the float32
\* value of its coefficient; the model follows at most MaxScalings calls
\* that take one of the two branches
UpdateModuleKlCoeffF32 ==
    /\ \E kl_loss \in KlLossInputs :
          LET factor == kl_coeff_factor(config, kl_loss)
              updated == f32_times(tensor.x, factor)
          IN /\ factor # "none" =>
                    tensor.above + tensor.below < MaxScalings
             /\ tensor' =
                  [tensor EXCEPT
                      !.warned = @ \/ IsNaN(kl_loss),
                      !.x = updated,
                      !.logged = {updated},
                      !.above = IF AboveTarget(config, kl_loss) THEN @ + 1 ELSE @,
                      !.below = IF BelowTarget(config, kl_loss) THEN @ + 1 ELSE @]
    /\ UNCHANGED <<config, batch, learner, loss>>
    /\ UNCHANGED <<env_vars, module_vars, loop_vars>>

\* the learner with one loss call on a batch of one timestep to come, under
\* the configurations with a critic and one clip_param and on the batches
\* without a loss mask (what the calls of the loss and the updates of the
\* KL coefficient do to each other does not go through the clipping, the
\* value loss or the masking)
InitLearner ==
    /\ config \in {c \in Configs : c.use_critic /\ c.clip_param = Rat(1, 4)}
    /\ batch \in {b \in BatchesOfLen(1) : ~b.has_loss_mask}
    /\ learner \in Learners
    /\ loss = NoLoss
    /\ tensor = NotBuilt

(***************************************************************************)
(* PPOTorchRLModule.compute_values (lesson_4/1-learning_rl_modules_for_    *)
(* custom_policies.ipynb).  A dict is a function on its keys; the dicts    *)
(* live in a heap of objects, so that a copy and the dict it was copied    *)
(* from are two objects.  A network is known by its name and returns that  *)
(* name with its input.                                                    *)
(***************************************************************************)

\* d[key] = value
SetItem(d, key, value) ==
    [k \in DOMAIN d \cup {key} |-> IF k = key THEN value ELSE d[k]]

\* self.encoder.critic_encoder(batch_), self.encoder(batch), self.vf(...)
\* and vf_out.squeeze(-1)
critic_encoder(d) == [ENCODER_OUT |-> <<"critic_encoder", d>>]

encoder(d) ==
    [ENCODER_OUT |-> [ACTOR |-> <<"encoder", "actor", d>>,
                      CRITIC |-> <<"encoder", "critic", d>>]]

vf(embeddings) == [data |-> <<"vf", embeddings>>, last_dim |-> {1}]

squeeze(t) == [data |-> t.data, last_dim |-> {}]

\* The modules: with a separate critic encoder or a shared one, stateful
\* or not.
PPOModules == [has_critic_encoder : BOOLEAN, is_stateful : BOOLEAN]

\* The batches a caller passes: an observation, and with or without
\* STATE_IN, which holds the actor's and the critic's recurrent state.
BatchDicts ==
    {[obs |-> o] : o \in 0 .. 2}
    \cup
    {[obs |-> o, state_in |-> [ACTOR |-> <<"h", "actor", h>>,
                               CRITIC |-> <<"h", "critic", h>>]] :
        o \in 0 .. 2, h \in 0 .. 1}

\* the embeddings argument: None, or what _forward_train kept
EmbeddingsInputs == {"None", <<"embeddings", 0>>, <<"embeddings", 1>>}

\* the object id of the caller's batch, and of a copy made of it
BATCH == 1

COPY == 2

\* rewriting STATE_IN in the caller's batch itself
state_in_for_critic_in_place(heap, the_batch) ==
    IF "state_in" \in DOMAIN heap[the_batch]
      THEN [heap |-> [heap EXCEPT ![the_batch] =
                         SetItem(heap[the_batch], "state_in",
                                 heap[the_batch].state_in.CRITIC)],
            batch_ |-> the_batch, raised |-> FALSE]
    ELSE [heap |-> heap, batch_ |-> the_batch, raised |-> TRUE]

\* batch_ = batch.copy(); batch_[Columns.STATE_IN] =
\* batch[Columns.STATE_IN][CRITIC]: the heap after it and the object batch_
\* names (the_batch is the object batch names); a batch without STATE_IN
\* raises KeyError, after the copy was made
state_in_for_critic(heap, the_batch) ==
    LET copied == (COPY :> heap[the_batch]) @@ heap IN
    IF "state_in" \in DOMAIN heap[the_batch]
      THEN [heap |-> [copied EXCEPT ![COPY] =
                         SetItem(copied[COPY], "state_in",
                                 heap[the_batch].state_in.CRITIC)],
            batch_ |-> COPY, raised |-> FALSE]
    ELSE [heap |-> copied, batch_ |-> COPY, raised |-> TRUE]

\* compute_values(batch, embeddings): the heap after the call, the networks
\* it ran (each with the object and the input it was given; object 0 for an
\* input that is no dict), and what it returned or that it raised
compute_values(self, heap, the_batch, embeddings) ==
    LET value_head(heap_, ran, emb) ==
            [heap |-> heap_,
             ran |-> Append(ran, [net |-> "vf", object |-> 0, input |-> emb]),
             raised |-> FALSE,
             out |-> {squeeze(vf(emb))}]
    IN IF embeddings # "None" THEN value_head(heap, <<>>, embeddings)
       ELSE IF self.has_critic_encoder
         THEN LET b == IF self.is_stateful
                         THEN state_in_for_critic(heap, the_batch)
                       ELSE [heap |-> heap, batch_ |-> the_batch, raised |-> FALSE]
              IN IF b.raised
                   THEN [heap |-> b.heap, ran |-> <<>>, raised |-> TRUE,
                         out |-> {}]
                 ELSE value_head(
                        b.heap,
                        <<[net |-> "critic_encoder", object |-> b.batch_,
                           input |-> b.heap[b.batch_]]>>,
                        critic_encoder(b.heap[b.batch_]).ENCODER_OUT)
       ELSE value_head(
              heap,
              <<[net |-> "encoder", object |-> the_batch, input |-> heap[the_batch]]>>,
              encoder(heap[the_batch]).ENCODER_OUT.CRITIC)

\* No call yet.  self: the module; heap: the dict objects; embeddings: the
\* argument of the call; before: the caller's batch as it was when the call
\* was made.
NoValues ==
    [self |-> [has_critic_encoder |-> FALSE, is_stateful |-> FALSE],
     heap |-> (BATCH :> [obs |-> 0]), called |-> FALSE, embeddings |-> "None",
     before |-> [obs |-> 0], ran |-> <<>>, raised |-> FALSE, out |-> {}]

InitValues ==
    \E self \in PPOModules, d \in BatchDicts :
        values = [NoValues EXCEPT !.self = self, !.heap = (BATCH :> d),
                                  !.before = d]

\* module.compute_values(batch, embeddings=...), called once on the batch
ComputeValues ==
    /\ ~values.called
    /\ \E embeddings \in EmbeddingsInputs :
          LET r == compute_values(values.self, values.heap, BATCH, embeddings)
          IN values' = [values EXCEPT !.heap = r.heap, !.called = TRUE,
                                      !.embeddings = embeddings,
                                      !.before = values.heap[BATCH],
                                      !.ran = r.ran, !.raised = r.raised,
                                      !.out = r.out]
    /\ UNCHANGED <<module, fwd, env_vars, loss_vars, loop_vars>>

(***************************************************************************)
(* DiscreteTorchModule (lesson_4/1-learning_rl_modules_for_custom_         *)
(* policies.ipynb).  The forward passes are given for one observation, as  *)
(* the notebook calls them.                                                *)
(***************************************************************************)

\* self.action_space.n of the modules the model builds.
NumActions == 3

\* exploration_epsilon = 0.2, in tenths
exploration_epsilon == 2

\* The values of np.random.rand() the model draws, in tenths.
RandInputs == {0, 1, 2, 5, 9}

\* The observations of the model and the logits the policy network can put
\* on an action.
Observations == {0, 1}

LogitVectors == [1 .. NumActions -> {0, 1, 2}]

\* The modules: self.policy, the network nn.Sequential(Linear, ReLU,
\* Linear) with fixed weights, is the function from the observation to the
\* logits it computes.
Modules == [policy : [Observations -> LogitVectors]]

\* np.argmax over the first upto entries of a: the 0-based index of the
\* first occurrence of the maximum
RECURSIVE argmax_upto(_, _)
argmax_upto(a, upto) ==
    IF upto = 1 THEN 0
    ELSE LET best == argmax_upto(a, upto - 1)
         IN IF a[upto] > a[best + 1] THEN upto - 1 ELSE best

\* np.argmin in place of np.argmax
RECURSIVE argmin_upto(_, _)
argmin_upto(a, upto) ==
    IF upto = 1 THEN 0
    ELSE LET best == argmin_upto(a, upto - 1)
         IN IF a[upto] < a[best + 1] THEN upto - 1 ELSE best

np_argmin(a) == argmin_upto(a, Len(a))

np_argmax(a) == argmax_upto(a, Len(a))

\* torch.distributions.Categorical(logits=logits): the distribution object
\* (the normalisation of its logits is not followed)
Categorical(logits) == [dist |-> "Categorical", logits |-> logits]

\* inference returning the action with the smallest logit
forward_inference_argmin(self, b) ==
    [actions |-> np_argmin(self.policy[b.obs])]

\* DiscreteTorchModule._forward_inference
forward_inference(self, b) ==
    [actions |-> np_argmax(self.policy[b.obs])]

\* DiscreteTorchModule._forward_exploration with the values rand of
\* np.random.rand() and choice of np.random.choice(self.action_space.n)
forward_exploration(self, b, rand, choice) ==
    IF rand < exploration_epsilon
      THEN [actions |-> choice]
    ELSE [action_dist_inputs |-> Categorical(self.policy[b.obs])]

\* DiscreteTorchModule._forward_train
forward_train(self, b) ==
    [action_dist_inputs |-> Categorical(self.policy[b.obs])]

\* No forward pass yet: out is the returned dict (none yet), rand the value
\* np.random.rand() gave the pass.
NoFwd == [call |-> "none", obs |-> 0, rand |-> 0, out |-> <<>>]

InitModule ==
    /\ module \in Modules
    /\ fwd = NoFwd
    /\ values = NotBuilt

\* rlmodule.forward_inference(batch)
ForwardInference ==
    /\ \E obs \in Observations :
          fwd' = [call |-> "inference", obs |-> obs, rand |-> 0,
                  out |-> forward_inference(module, [obs |-> obs])]
    /\ UNCHANGED <<module, values, env_vars, loss_vars, loop_vars>>

\* rlmodule.forward_exploration(batch)
ForwardExploration ==
    /\ \E obs \in Observations, rand \in RandInputs, choice \in 0 .. (NumActions - 1) :
          fwd' = [call |-> "exploration", obs |-> obs, rand |-> rand,
                  out |-> forward_exploration(module, [obs |-> obs], rand, choice)]
    /\ UNCHANGED <<module, values, env_vars, loss_vars, loop_vars>>

\* rlmodule.forward_train(batch)
ForwardTrain ==
    /\ \E obs \in Observations :
          fwd' = [call |-> "train", obs |-> obs, rand |-> 0,
                  out |-> forward_train(module, [obs |-> obs])]
    /\ UNCHANGED <<module, values, env_vars, loss_vars, loop_vars>>

(***************************************************************************)
(* guess_the_number_agent and the episode loop (lesson 1)                  *)
(***************************************************************************)

\* number_of_episodes = 10
number_of_episodes == 10

\* Most episodes of the loop the model follows.
MaxEpisodes == 1

\* np.random.randint(low, high): the values it can return, low .. high - 1;
\* it raises ValueError when there is none (low >= high)
np_random_randint(low, high) == low .. (high - 1)

\* the agent drawing from the wrong side of its previous guess
guess_the_number_agent_swapped(observation) ==
    LET tip == observation[1]
        previous_action == observation[2]
    IN IF tip = 0 THEN np_random_randint(0, 100)
       ELSE IF tip = 1 THEN np_random_randint(0, previous_action)
       ELSE IF tip = 3 THEN np_random_randint(previous_action, 100)
       ELSE {previous_action}

\* guess_the_number_agent(observation): the values it can return, the
\* range it samples (empty when np.random.randint raises)
guess_the_number_agent(observation) ==
    LET tip == observation[1]
        previous_action == observation[2]
    IN IF tip = 0 THEN np_random_randint(0, 100)
       ELSE IF tip = 1 THEN np_random_randint(previous_action, 100)
       ELSE IF tip = 3 THEN np_random_randint(0, previous_action)
       ELSE {previous_action}

\* The loop's locals before the first episode.  pc: "for" at the head of
\* the for loop, "while" at the test of the while loop, "raised" once an
\* exception left the loop; obs, reward and truncated are not assigned yet
\* (the values below are never read).  The local action is not kept: after
\* the step it is the second component of obs.
InitLoopLocals ==
    [pc |-> "for", episode |-> 0, obs |-> <<0, 0>>, reward |-> 0,
     terminated |-> FALSE, truncated |-> FALSE]

\* Most non-winning passes of the while body the model follows in an
\* episode whose accounting it follows.
MaxGuesses == 2

\* The accounting locals before the first episode: total_reward = 0,
\* report_performance = [], right_action not assigned yet ({}; {a} once it
\* holds a).  followed says whether the model follows these locals at all:
\* total_reward has no bound, so the specifications of the loop that follow
\* unboundedly many guesses leave them out, and SpecReport, which follows
\* them, follows one episode of at most MaxGuesses wrong guesses.  until is
\* the episode at which it stops; steps is history, the passes of the while
\* body in the current episode.
InitReportLocals ==
    [followed |-> FALSE, until |-> 0, total_reward |-> 0, right_action |-> {},
     report_performance |-> <<>>, steps |-> 0]

InitLoop ==
    /\ \E number \in randint : env = init(number)
    /\ ret = NoReturn
    /\ wrong_since_reset = 0
    /\ loop = InitLoopLocals
    /\ report = InitReportLocals

\* the loop forgetting to clear total_reward at the start of an episode
ForEpisode_keeps_total_reward ==
    /\ loop.pc = "for"
    /\ loop.episode < number_of_episodes
    /\ IF report.followed THEN loop.episode < report.until
                          ELSE loop.episode < MaxEpisodes
    /\ \E number \in randint :
          LET r == reset(env, number) IN
          /\ env' = r.self
          /\ loop' = [loop EXCEPT !.pc = "while", !.obs = r.observation,
                                  !.terminated = FALSE]
    /\ report' = IF report.followed THEN [report EXCEPT !.steps = 0]
                                    ELSE report
    /\ UNCHANGED <<ret, wrong_since_reset, loss_vars, module_vars>>

\* for episode in range(number_of_episodes): obs, _ = env.reset();
\* terminated = False; total_reward = 0.  The model follows the first
\* MaxEpisodes episodes, or the episodes before report.until
ForEpisode ==
    /\ loop.pc = "for"
    /\ loop.episode < number_of_episodes
    /\ IF report.followed THEN loop.episode < report.until
                          ELSE loop.episode < MaxEpisodes
    /\ \E number \in randint :
          LET r == reset(env, number) IN
          /\ env' = r.self
          /\ loop' = [loop EXCEPT !.pc = "while", !.obs = r.observation,
                                  !.terminated = FALSE]
    /\ report' = IF report.followed
                   THEN [report EXCEPT !.total_reward = 0, !.steps = 0]
                 ELSE report
    /\ UNCHANGED <<ret, wrong_since_reset, loss_vars, module_vars>>

\* one pass of the while body in which the agent returns action:
\* obs, reward, terminated, truncated, info = env.step(action);
\* total_reward += float(reward) (float(-1) is -1.0 and float(0) is 0.0: the
\* same numbers); right_action = action
WhileBody(action) ==
    /\ loop.pc = "while"
    /\ ~loop.terminated
    /\ action \in guess_the_number_agent(loop.obs)
    /\ LET r == step(env, action) IN
          /\ report.followed =>
                (r.terminated \/ report.steps < MaxGuesses)
          /\ env' = r.self
          /\ loop' = [loop EXCEPT !.obs = r.observation, !.reward = r.reward,
                                  !.terminated = r.terminated,
                                  !.truncated = r.truncated]
          /\ report' = IF report.followed
                         THEN [report EXCEPT
                                  !.total_reward = @ + r.reward,
                                  !.right_action = {action},
                                  !.steps = @ + 1]
                       ELSE report
    /\ UNCHANGED <<ret, wrong_since_reset, loss_vars, module_vars>>

\* while not terminated: action = guess_the_number_agent(obs);
\* obs, reward, terminated, truncated, info = env.step(action); ...
WhileNotTerminated ==
    IF loop.pc = "while" /\ ~loop.terminated
          /\ guess_the_number_agent(loop.obs) = {}
      THEN /\ loop' = [loop EXCEPT !.pc = "raised"]
           /\ UNCHANGED <<env_vars, loss_vars, module_vars, report>>
    ELSE \E action \in guess_the_number_agent(loop.obs) : WhileBody(action)

\* the while loop ends:
\* report_performance.append((total_reward, right_action)); next episode
WhileExit ==
    /\ loop.pc = "while"
    /\ loop.terminated
    /\ loop' = [loop EXCEPT !.pc = "for", !.episode = @ + 1]
    /\ report' = IF report.followed
                   THEN [report EXCEPT
                            !.report_performance =
                                Append(@, <<report.total_reward,
                                            report.right_action>>)]
                 ELSE report
    /\ UNCHANGED <<env_vars, loss_vars, module_vars>>

\* An earlier episode as the loop leaves it behind: its target and the
\* number of its wrong guesses.
EarlierEpisodes == {[number |-> 42, wrong |-> 3]}

\* The loop at the head of the for statement with its accounting followed:
\* before the first episode, or before the last one, after
\* number_of_episodes - 1 episodes that each went as e says.
LoopHeads ==
    {[env |-> init(number), loop |-> InitLoopLocals,
      report |-> [InitReportLocals EXCEPT !.followed = TRUE, !.until = 1]] :
        number \in randint}
    \cup
    {[env |-> [number |-> e.number, steps_without_winning |-> {0}],
      loop |-> [pc |-> "for", episode |-> number_of_episodes - 1,
                obs |-> <<CORRECT, e.number>>, reward |-> 0,
                terminated |-> TRUE, truncated |-> FALSE],
      report |-> [followed |-> TRUE, until |-> number_of_episodes,
                  total_reward |-> -e.wrong, right_action |-> {e.number},
                  report_performance |->
                      [i \in 1 .. (number_of_episodes - 1) |->
                          <<-e.wrong, {e.number}>>],
                  steps |-> e.wrong + 1]] :
        e \in EarlierEpisodes}

InitReport ==
    /\ \E h \in LoopHeads :
          /\ env = h.env
          /\ loop = h.loop
          /\ report = h.report
    /\ ret = NoReturn
    /\ wrong_since_reset = 0

\* the variables of the components a specification does not exercise
IdleEnv ==
    /\ env = init(0)
    /\ ret = NoReturn
    /\ wrong_since_reset = 0

IdleLoss ==
    /\ config = NotBuilt
    /\ batch = NotBuilt
    /\ learner = NotBuilt
    /\ loss = NotBuilt
    /\ tensor = NotBuilt

IdleModule ==
    /\ module = NotBuilt
    /\ fwd = NotBuilt
    /\ values = NotBuilt

IdleLoop == loop = InitLoopLocals /\ report = InitReportLocals

(***************************************************************************)
(* Specifications                                                          *)
(***************************************************************************)

Init == InitEnv /\ IdleLoss /\ IdleModule /\ IdleLoop

Next == Reset \/ Step

Spec == Init /\ [][Next]_vars

InitL == IdleEnv /\ InitLoss /\ IdleModule /\ IdleLoop

\* the loss is called once
NextL == ~loss.called /\ ComputeLoss

SpecLoss == InitL /\ [][NextL]_vars

InitLrn == IdleEnv /\ InitLearner /\ IdleModule /\ IdleLoop

\* the loss is called at most MaxCalls times
NextLrn == (loss.calls < MaxCalls /\ ComputeLoss) \/ UpdateModuleKlCoeff

SpecLearner == InitLrn /\ [][NextLrn]_vars

\* the configuration matters to the updates by its kl_target only
InitT ==
    /\ IdleEnv /\ IdleModule /\ IdleLoop
    /\ config = CHOOSE c \in Configs : TRUE
    /\ batch = NotBuilt
    /\ learner = NotBuilt
    /\ loss = NotBuilt
    /\ InitTensor

SpecKlTensor == InitT /\ [][UpdateModuleKlCoeffF32]_vars

InitM == IdleEnv /\ IdleLoss /\ InitModule /\ IdleLoop

NextM == ForwardInference \/ ForwardExploration \/ ForwardTrain

SpecModule == InitM /\ [][NextM]_vars

InitV ==
    /\ IdleEnv /\ IdleLoss /\ IdleLoop
    /\ module = NotBuilt
    /\ fwd = NotBuilt
    /\ InitValues

SpecValues == InitV /\ [][ComputeValues]_vars

InitLp == InitLoop /\ IdleLoss /\ IdleModule

NextLp == ForEpisode \/ WhileNotTerminated \/ WhileExit

SpecLoop == InitLp /\ [][NextLp]_vars

\* The loop is sequential code that keeps running, and the random number
\* generator is fair: a value that is in the agent's range again and again
\* is drawn eventually (SF_vars(WhileBody(a)) for every a in 0..99).  Of
\* that fairness only its consequence for the hidden target is stated:
\* while an episode runs the target does not change, so if drawing it stays
\* possible it is drawn.
FairLoop ==
    /\ WF_vars(ForEpisode)
    /\ WF_vars(WhileExit)
    /\ WF_vars(WhileBody(env.number))

SpecLoopFair == InitLp /\ [][NextLp]_vars /\ FairLoop

InitRp == InitReport /\ IdleLoss /\ IdleModule

SpecReport == InitRp /\ [][NextLp]_vars

(***************************************************************************)
(* Claims about GuessNumber, checked under Spec                            *)
(***************************************************************************)

\* C1: for every hidden target and every guess in 0..99, step(g) returns
\* terminated = true exactly when g equals the target, reward 0 exactly
\* when terminated, and reward -1 otherwise, at every step of an episode.
C1_StepTerminatesIffCorrect ==
    (ret.call = "step" /\ ret.action \in action_space) =>
        /\ ~ret.raised
        /\ ret.terminated <=> (ret.action = env.number)
        /\ (ret.reward = 0) <=> ret.terminated
        /\ ~ret.terminated => ret.reward = -1

\* The spec's scenario: target 50, two wrong guesses, then the guess 50.
C1_Witness ==
    /\ env.number = 50
    /\ wrong_since_reset = 2
    /\ ret.call = "step" /\ ret.action = 50
    /\ ret.terminated /\ ret.reward = 0

\* C2: the observation returned by step(a) is [hint, a]: hint is TOO_LOW
\* exactly when a < target, TOO_HIGH exactly when a > target, CORRECT
\* exactly when a = target, never START, and the second component is a.
C2_StepObservation ==
    ret.call = "step" =>
        /\ ret.observation[2] = ret.action
        /\ (ret.observation[1] = TOO_LOW) <=> (ret.action < env.number)
        /\ (ret.observation[1] = TOO_HIGH) <=> (ret.action > env.number)
        /\ (ret.observation[1] = CORRECT) <=> (ret.action = env.number)
        /\ ret.observation[1] # START

C2_Witness ==
    /\ ret.call = "step"
    /\ ret.action > env.number
    /\ ret.observation = <<TOO_HIGH, ret.action>>

\* C3: reset() can be called in every state and never fails; each call
\* returns the observation (START, 0), leaves the hidden target in 0..99
\* and sets the step counter to 0.
C3_ResetAlwaysStarts ==
    /\ ENABLED Reset
    /\ ret.call = "reset" =>
          /\ ~ret.raised
          /\ ret.observation = <<START, 0>>
          /\ env.number \in 0 .. 99
          /\ env.steps_without_winning = {0}

\* reset() called after the episode terminated.
C3_Witness ==
    /\ ret.call = "reset"
    /\ ret.reset_from = "DONE"
    /\ ret.observation = <<START, 0>>

\* C4 (as stated): step() with an action outside the action space 0..99
\* raises a validation error instead of returning a tuple.
C4_InvalidActionRejected ==
    (ret.call = "step" /\ ret.action \notin action_space) => ret.raised

\* C5: every step returns truncated = false, however many wrong guesses
\* were made before it.
C5_NeverTruncated ==
    ret.call = "step" => ret.truncated = FALSE

\* A wrong guess after the most wrong guesses the model follows.
C5_Witness ==
    /\ ret.call = "step"
    /\ ~ret.terminated
    /\ wrong_since_reset = MaxWrong
    /\ ret.truncated = FALSE

(***************************************************************************)
(* Claims about compute_loss_for_module, checked under SpecLoss            *)
(***************************************************************************)

\* the timesteps of the batch that count
Unmasked ==
    IF batch.has_loss_mask
      THEN {i \in 1 .. T(batch) : batch.rows[i].loss_mask}
    ELSE 1 .. T(batch)

\* the sum of data over the timesteps that count, divided by their number
MeanOverUnmasked(data) ==
    RDiv(SumOver(data, Unmasked, T(batch)), Rat(Cardinality(Unmasked), 1))

ClipLow == RSub(One, config.clip_param)

ClipHigh == RAdd(One, config.clip_param)

\* C6: on every timestep the surrogate is the minimum of advantage * r and
\* advantage * clamp(r, 1 - clip_param, 1 + clip_param); so it is at most
\* advantage * r, it is advantage * min(r, 1 + clip_param) when the
\* advantage is >= 0, and advantage * max(r, 1 - clip_param) when it is < 0.
C6_SurrogateIsClippedMinimum ==
    loss.called =>
        \A i \in 1 .. T(batch) :
            LET adv == batch.rows[i].advantages
                r == loss.logp_ratio[i]
                surr == loss.surrogate_loss[i]
            IN /\ surr = RMin(RMul(adv, r), RMul(adv, Clamp(r, ClipLow, ClipHigh)))
               /\ RLe(surr, RMul(adv, r))
               /\ RLe(Zero, adv) => surr = RMul(adv, RMin(r, ClipHigh))
               /\ RLt(adv, Zero) => surr = RMul(adv, RMax(r, ClipLow))

\* A timestep with a positive advantage whose ratio is above 1 + clip_param:
\* the surrogate is the clipped one, below advantage * r.
C6_Witness ==
    /\ loss.called
    /\ \E i \in 1 .. T(batch) :
          /\ RLt(Zero, batch.rows[i].advantages)
          /\ RLt(ClipHigh, loss.logp_ratio[i])
          /\ loss.surrogate_loss[i] = RMul(batch.rows[i].advantages, ClipHigh)
          /\ RLt(loss.surrogate_loss[i],
                 RMul(batch.rows[i].advantages, loss.logp_ratio[i]))

\* C7: for a ratio r with 1 - clip_param <= r <= 1 + clip_param, bounds
\* included, the surrogate is advantage * r whatever the advantage; with
\* r = 1 on every timestep the surrogate is the advantages and the logged
\* policy loss is minus their mean.
C7_NoClippingWithinBounds ==
    loss.called =>
        /\ \A i \in 1 .. T(batch) :
              (RLe(ClipLow, loss.logp_ratio[i]) /\ RLe(loss.logp_ratio[i], ClipHigh))
                  => loss.surrogate_loss[i] =
                        RMul(batch.rows[i].advantages, loss.logp_ratio[i])
        /\ (\A i \in 1 .. T(batch) : loss.logp_ratio[i] = One) =>
              /\ \A i \in 1 .. T(batch) :
                    loss.surrogate_loss[i] = batch.rows[i].advantages
              /\ learner.metrics.policy_loss =
                    RNeg(MeanOverUnmasked(
                            [i \in 1 .. T(batch) |-> batch.rows[i].advantages]))

\* A negative advantage with the ratio exactly at the lower bound
\* 1 - clip_param, below 1: the surrogate is advantage * r.
C7_Witness ==
    /\ loss.called
    /\ RLt(Zero, config.clip_param)
    /\ \E i \in 1 .. T(batch) :
          /\ loss.logp_ratio[i] = ClipLow
          /\ RLt(batch.rows[i].advantages, Zero)
          /\ loss.surrogate_loss[i] =
                RMul(batch.rows[i].advantages, loss.logp_ratio[i])

\* The spec's scenario: two timesteps, advantages 1 and -1, both ratios 1,
\* no mask: the surrogate is 1, -1 and the policy loss is 0.
C7_Scenario ==
    /\ loss.called
    /\ ~batch.has_loss_mask
    /\ T(batch) = 2
    /\ batch.rows[1].advantages = Rat(1, 1) /\ batch.rows[2].advantages = Rat(-1, 1)
    /\ loss.logp_ratio = <<One, One>>
    /\ loss.surrogate_loss = <<Rat(1, 1), Rat(-1, 1)>>
    /\ learner.metrics.policy_loss = Zero

\* the clipped value loss of timestep i: min(squared error, vf_clip_param)
\* with the critic, 0 without
ClippedValueLossAt(i) ==
    IF config.use_critic
      THEN RMin(Square(RSub(batch.rows[i].value_fn_out, batch.rows[i].value_targets)),
                config.vf_clip_param)
    ELSE Zero

\* the mean KL divergence between the old and the current distributions
MeanKL ==
    MeanOverUnmasked([i \in 1 .. T(batch) |->
        kl(from_logits(batch.rows[i].prev_logits),
           from_logits(batch.rows[i].curr_logits))])

\* C8: the returned scalar is the (possibly masked) mean over timesteps of
\* -surrogate + vf_loss_coeff * clipped value loss - entropy_coeff * entropy,
\* plus kl_coeff * mean KL only when use_kl_loss is set; with use_kl_loss
\* off the logged KL statistic is exactly zero.
C8_TotalLossFormula ==
    loss.called =>
        LET mean == MeanOverUnmasked([i \in 1 .. T(batch) |->
                        RSub(RAdd(RNeg(loss.surrogate_loss[i]),
                                  RMul(config.vf_loss_coeff, ClippedValueLossAt(i))),
                             RMul(learner.entropy_coeff,
                                  entropy(from_logits(batch.rows[i].curr_logits))))])
        IN /\ config.use_kl_loss =>
                loss.total_loss = RAdd(mean, RMul(learner.curr_kl_coeff, MeanKL))
           /\ ~config.use_kl_loss =>
                /\ loss.total_loss = mean
                /\ learner.metrics.mean_kl_loss = Zero

\* A masked batch whose old and current distributions differ, with the KL
\* loss off: the loss is a number, the KL statistic is 0 although the mean
\* KL is not.
C8_Witness ==
    /\ loss.called
    /\ ~config.use_kl_loss /\ config.use_critic
    /\ batch.has_loss_mask
    /\ Unmasked # {} /\ Unmasked # 1 .. T(batch)
    /\ MeanKL # Zero
    /\ ~IsNaN(loss.total_loss)
    /\ learner.metrics.mean_kl_loss = Zero

\* C9: with a loss mask that keeps at least one timestep,
\* possibly_masked_mean(values) is the sum of the values at the unmasked
\* timesteps divided by their number; without a mask it is the plain mean
\* over all timesteps.  (Read off the logged means of the entropy, the
\* surrogate and the unclipped value loss.)
C9_MaskedMean ==
    (loss.called /\ Unmasked # {}) =>
        LET n == IF batch.has_loss_mask THEN Cardinality(Unmasked) ELSE T(batch)
            MeanOf(data) == RDiv(SumOver(data, Unmasked, T(batch)), Rat(n, 1))
        IN /\ learner.metrics.entropy =
                MeanOf([i \in 1 .. T(batch) |->
                          entropy(from_logits(batch.rows[i].curr_logits))])
           /\ learner.metrics.policy_loss =
                RNeg(MeanOf(loss.surrogate_loss))
           /\ config.use_critic =>
                learner.metrics.vf_loss_unclipped =
                    MeanOf([i \in 1 .. T(batch) |->
                              Square(RSub(batch.rows[i].value_fn_out,
                                          batch.rows[i].value_targets))])

\* The spec's example: mask [true, false] over the values [4, 100] (the
\* squared value errors) has the mean 4.
C9_Witness ==
    /\ loss.called /\ config.use_critic
    /\ batch.has_loss_mask
    /\ T(batch) = 2
    /\ batch.rows[1].loss_mask /\ ~batch.rows[2].loss_mask
    /\ Square(RSub(batch.rows[1].value_fn_out, batch.rows[1].value_targets)) = Rat(4, 1)
    /\ Square(RSub(batch.rows[2].value_fn_out, batch.rows[2].value_targets)) = Rat(100, 1)
    /\ learner.metrics.vf_loss_unclipped = Rat(4, 1)

\* the batch with every masked-out timestep replaced by OtherRow: any two
\* batches with the same mask that agree on the unmasked timesteps have
\* the same MaskedOutReplaced
MaskedOutReplaced ==
    [batch EXCEPT !.rows =
        [i \in 1 .. T(batch) |->
            IF batch.rows[i].loss_mask THEN batch.rows[i] ELSE OtherRow]]

\* C10: the total loss does not depend on the masked-out timesteps: it is
\* the total loss of the batch whose masked-out timesteps are replaced by
\* other ones (other action, advantage, old log-probability, old and
\* current logits, value target and value).
C10_MaskedOutIgnored ==
    (loss.called /\ batch.has_loss_mask) =>
        loss.total_loss =
            compute_loss_for_module(learner, config, MaskedOutReplaced).total_loss

\* A batch with a timestep that counts and a masked-out one that the
\* replacement changes.
C10_Witness ==
    /\ loss.called /\ batch.has_loss_mask
    /\ config.use_kl_loss /\ config.use_critic
    /\ Unmasked # {}
    /\ MaskedOutReplaced # batch
    /\ ~IsNaN(loss.total_loss)
    /\ loss.total_loss =
          compute_loss_for_module(learner, config, MaskedOutReplaced).total_loss

\* C13: with the critic, the clipped value loss of a timestep is
\* min((value - target)^2, vf_clip_param): it lies in [0, vf_clip_param], it
\* is the squared error when that is at most vf_clip_param, and the logged
\* clipped mean does not exceed the logged unclipped mean.
C13_ClippedValueLoss ==
    (loss.called /\ config.use_critic) =>
        /\ \A i \in 1 .. T(batch) :
              LET sq == Square(RSub(batch.rows[i].value_fn_out,
                                    batch.rows[i].value_targets))
                  clipped == loss.vf_loss_clipped[i]
              IN /\ clipped = RMin(sq, config.vf_clip_param)
                 /\ RLe(Zero, clipped) /\ RLe(clipped, config.vf_clip_param)
                 /\ RLe(sq, config.vf_clip_param) => clipped = sq
        /\ ~RLt(learner.metrics.vf_loss_unclipped, learner.metrics.vf_loss)

\* Two timesteps that count, with the squared errors 4 (kept) and 100
\* (clipped to 10): the clipped mean 7 is below the unclipped mean 52.
C13_Witness ==
    /\ loss.called /\ config.use_critic
    /\ T(batch) = 2 /\ Unmasked = {1, 2}
    /\ loss.vf_loss = <<Rat(4, 1), Rat(100, 1)>>
    /\ loss.vf_loss_clipped = <<Rat(4, 1), Rat(10, 1)>>
    /\ learner.metrics.vf_loss = Rat(7, 1)
    /\ learner.metrics.vf_loss_unclipped = Rat(52, 1)

\* C14 (as stated): with a loss mask that masks every timestep out, the
\* call fails with an arithmetic error and returns no loss.
C14_AllMaskedOutRaises ==
    (loss.called /\ batch.has_loss_mask /\ Unmasked = {}) => loss.raised

\* C15 (as stated): the call fails with a domain error whenever clip_param
\* is not strictly between 0 and 1.
C15_ClipParamOutsideUnitIntervalRaises ==
    (loss.called
        /\ ~(RLt(Zero, config.clip_param) /\ RLt(config.clip_param, One)))
      => loss.raised

(***************************************************************************)
(* Claims about the learner, checked under SpecLearner                     *)
(***************************************************************************)

C16_InferenceIsGreedy ==
    fwd.call = "inference" =>
        LET logits == module.policy[fwd.obs] IN
        /\ DOMAIN fwd.out = {"actions"}
        /\ fwd.out.actions \in 0 .. (NumActions - 1)
        /\ \A a \in 1 .. NumActions : logits[a] <= logits[fwd.out.actions + 1]
        /\ \A a \in 1 .. fwd.out.actions : logits[a] < logits[fwd.out.actions + 1]

\* The largest logit is on the last action only.
C16_Witness ==
    /\ fwd.call = "inference"
    /\ module.policy[fwd.obs] = [a \in 1 .. NumActions |-> IF a = NumActions THEN 2 ELSE 1]
    /\ fwd.out.actions = NumActions - 1

\* C17 (as stated): _forward_exploration returns an action: a random one
\* from 0..n-1, or, when np.random.rand() is not below exploration_epsilon,
\* the action _forward_inference returns for the observation.
C17_ExplorationRandomOrGreedy ==
    fwd.call = "exploration" =>
        /\ "actions" \in DOMAIN fwd.out
        /\ fwd.out.actions \in 0 .. (NumActions - 1)
        /\ fwd.rand >= exploration_epsilon =>
              fwd.out.actions = forward_inference(module, [obs |-> fwd.obs]).actions

(***************************************************************************)
(* More claims about GuessNumber, checked under Spec                       *)
(***************************************************************************)

\* C18: a step assigns no attribute of the environment (the hidden target
\* stays what reset drew, at every step and after a terminal step too); the
\* tuple it returns is fixed by the action and the target the environment
\* held before the step; and a step with the action of the step before it
\* returns the same tuple.
C18_StepIsPure ==
    [][ret'.call = "step" =>
          /\ env' = env
          /\ ret'.observation =
                <<IF ret'.action < env.number THEN TOO_LOW
                  ELSE IF ret'.action > env.number THEN TOO_HIGH
                  ELSE CORRECT,
                  ret'.action>>
          /\ ret'.terminated = (ret'.action = env.number)
          /\ ret'.reward = IF ret'.action = env.number THEN 0 ELSE -1
          /\ ret'.truncated = FALSE
          /\ (ret.call = "step" /\ ret'.action = ret.action) => ret' = ret]_vars

\* After a reset, MaxWrong wrong guesses and the correct one, the
\* environment is as the reset left it.
C18_Witness ==
    /\ ret.call = "step" /\ ret.terminated
    /\ wrong_since_reset = MaxWrong
    /\ env = [number |-> 7, steps_without_winning |-> {0}]

(***************************************************************************)
(* Claims about the episode loop, checked under SpecLoop and SpecLoopFair  *)
(***************************************************************************)

C20_EpisodeTerminates ==
    (loop.pc = "while") ~> (loop.pc = "while" /\ loop.terminated)

\* An episode that ended after a wrong guess on either side of the target.
C20_Witness ==
    /\ loop.pc = "while" /\ loop.terminated
    /\ loop.obs = <<CORRECT, env.number>>
    /\ loop.reward = 0

(***************************************************************************)
(* Claims about the agent's guesses and the loop's report, checked under   *)
(* SpecReport                                                              *)
(***************************************************************************)

\* a pass of the while body: the loop was at an unfinished episode's while
\* test and is there again, one guess later
GuessTaken ==
    /\ loop.pc = "while" /\ ~loop.terminated
    /\ loop'.pc = "while"
    /\ report'.steps = report.steps + 1

\* C21: the agent never repeats a guess it has just been told is wrong:
\* after TOO_LOW its next guess is strictly greater than the previous one,
\* after TOO_HIGH strictly smaller.
C21_NeverRepeatsWrongGuess ==
    [][GuessTaken =>
          /\ loop.obs[1] = TOO_LOW => loop'.obs[2] > loop.obs[2]
          /\ loop.obs[1] = TOO_HIGH => loop'.obs[2] < loop.obs[2]]_vars

\* the wrong guesses of the current episode so far
WrongGuesses == IF loop.terminated THEN report.steps - 1 ELSE report.steps

\* C28: whenever an episode of the loop ends, the entry it records holds
\* the hidden target as right_action and minus the number of wrong guesses
\* (steps minus one) as total_reward, one entry per episode; total_reward
\* counts the wrong guesses of the current episode only, whatever an
\* earlier episode left in it.
C28_ReportedEpisode ==
    LET rp == report.report_performance IN
    /\ (loop.pc = "while" /\ report.followed) =>
          /\ report.total_reward = -WrongGuesses
          /\ Len(rp) = loop.episode
          /\ loop.terminated => report.right_action = {env.number}
    /\ (loop.pc = "for" /\ report.followed /\ loop.episode > 0) =>
          /\ Len(rp) = loop.episode
          /\ rp[Len(rp)] = <<-(report.steps - 1), {env.number}>>

C28_Witness ==
    /\ loop.pc = "for"
    /\ loop.episode = number_of_episodes
    /\ env.number = 7
    /\ report.steps = 3
    /\ report.report_performance[number_of_episodes] = <<-2, {7}>>
    /\ report.report_performance[number_of_episodes - 1] = <<-3, {42}>>

(***************************************************************************)
(* More claims about GuessNumber, checked under Spec                       *)
(***************************************************************************)

\* C22: every observation returned by reset, and by step for an action of
\* the action space, is a member of the declared observation space
\* MultiDiscrete(nvec=[4, 4]): both components are in 0..3.
C22_ObservationInDeclaredSpace ==
    (\/ ret.call = "reset"
     \/ ret.call = "step" /\ ret.action \in action_space)
      => ret.observation \in observation_space

\* C27: once reset has been called, steps_without_winning equals the number
\* of non-winning steps taken since the most recent reset.
C27_CounterCountsNonWinningSteps ==
    env.steps_without_winning # {} =>
        env.steps_without_winning = {wrong_since_reset}

(***************************************************************************)
(* Claims about the updates of the KL coefficient, checked under           *)
(* SpecLearner                                                             *)
(***************************************************************************)

\* a call of _update_module_kl_coeff was made
KlCoeffUpdated == learner'.kl_updates = learner.kl_updates + 1

\* C23: _update_module_kl_coeff multiplies the module's KL coefficient by
\* exactly 1.5 when kl_loss > 2 * kl_target, by exactly 0.5 when
\* kl_loss < 0.5 * kl_target, and leaves it as it was otherwise, also when
\* kl_loss is exactly 2 * kl_target or 0.5 * kl_target; the coefficients of
\* the other modules stay as they were.
C23_KlCoeffUpdate ==
    [][KlCoeffUpdated =>
          LET module_id == learner'.last_update.module_id
              kl_loss == learner'.last_update.kl_loss
              upper == RMul(Rat(2, 1), config.kl_target)
              lower == RMul(Rat(1, 2), config.kl_target)
              before == curr_kl_coeffs_per_module(learner)
              after == curr_kl_coeffs_per_module(learner')
          IN /\ IF ~IsNaN(kl_loss) /\ RLt(upper, kl_loss)
                  THEN after[module_id] = RMul(before[module_id], Rat(3, 2))
                ELSE IF ~IsNaN(kl_loss) /\ RLt(kl_loss, lower)
                  THEN after[module_id] = RMul(before[module_id], Rat(1, 2))
                ELSE after[module_id] = before[module_id]
             /\ kl_loss \in {upper, lower} =>
                    after[module_id] = before[module_id]
             /\ \A m \in ModuleIds \ {module_id} : after[m] = before[m]]_vars

\* The last update was called for module p1 with a kl_loss above the upper
\* threshold and raised its coefficient from 1/2 to 3/4, after an update
\* that had halved the coefficient of the default module.
C23_Witness ==
    /\ learner.kl_updates = 2
    /\ learner.last_update = [module_id |-> "p1", kl_loss |-> Rat(1, 10)]
    /\ learner.other_kl_coeffs["p1"] = Rat(3, 4)
    /\ learner.curr_kl_coeff = Rat(1, 10)

\* C24: called with a NaN kl_loss, _update_module_kl_coeff emits the
\* warning, raises nothing (it runs to its end, where it logs the
\* coefficient) and leaves every KL coefficient exactly as it was.
C24_NaNOnlyWarns ==
    [][(KlCoeffUpdated /\ IsNaN(learner'.last_update.kl_loss)) =>
          LET module_id == learner'.last_update.module_id IN
          /\ learner'.warned
          /\ curr_kl_coeffs_per_module(learner') =
                curr_kl_coeffs_per_module(learner)
          /\ logged_kl_coeffs(learner')[module_id] =
                curr_kl_coeffs_per_module(learner)[module_id]
          /\ loss' = loss /\ config' = config /\ batch' = batch]_vars

\* A NaN kl_loss after an update that had raised the coefficient to 3/10:
\* the warning is out and the coefficient is still 3/10.
C24_Witness ==
    /\ learner.kl_updates = 2
    /\ learner.last_update = [module_id |-> DEFAULT_MODULE_ID, kl_loss |-> NaN]
    /\ learner.warned
    /\ learner.curr_kl_coeff = Rat(3, 10)
    /\ learner.metrics.curr_kl_coeff = Rat(3, 10)

(***************************************************************************)
(* Claims about the KL coefficient as a float32 tensor, checked under      *)
(* SpecKlTensor                                                            *)
(***************************************************************************)

RECURSIVE OddPart(_)
\* n without its factors of 2 (n > 0), and the number of those factors
OddPart(n) == IF n % 2 = 0 THEN OddPart(n \div 2) ELSE n

RECURSIVE TwoExp(_)
TwoExp(n) == IF n % 2 = 0 THEN 1 + TwoExp(n \div 2) ELSE 0

RECURSIVE ProductOdd(_, _)
\* odd * 3^a, or 2^24 when that is 2^24 or more (no float32 has an odd part
\* that large)
ProductOdd(odd, a) ==
    IF a = 0 \/ odd >= 2 ^ F32_PRECISION
      THEN (IF odd >= 2 ^ F32_PRECISION THEN 2 ^ F32_PRECISION ELSE odd)
    ELSE ProductOdd(3 * odd, a - 1)

\* c0 * 1.5^a * 0.5^b written odd * 2^exp, for a and b the updates above
\* and below the thresholds
ClosedForm ==
    [odd |-> ProductOdd(OddPart(tensor.c0.m), tensor.above),
     exp |-> tensor.c0.e + TwoExp(tensor.c0.m) - tensor.above - tensor.below]

\* the coefficient is the number c0 * 1.5^a * 0.5^b
EqualsClosedForm ==
    /\ tensor.x.m > 0 /\ ~F32IsInf(tensor.x)
    /\ ClosedForm.odd < 2 ^ F32_PRECISION
    /\ OddPart(tensor.x.m) = ClosedForm.odd
    /\ tensor.x.e + TwoExp(tensor.x.m) = ClosedForm.exp

\* C25 (as stated): after any sequence of updates from a strictly positive
\* c0 the coefficient is strictly positive and equals c0 * 1.5^a * 0.5^b
\* (a, b: the calls with kl_loss above 2 * kl_target and below
\* 0.5 * kl_target); it is never zero and never changes sign.
C25_PositiveClosedForm ==
    /\ tensor.x.s = 1
    /\ tensor.x.m > 0
    /\ EqualsClosedForm

\* C25 (amended): the coefficient never changes sign, it equals
\* c0 * 1.5^a * 0.5^b whenever that number is a float32 (otherwise the
\* product was rounded), and it is zero only by underflow: not before the
\* halvings alone have taken c0 below the least positive float32.
C25_SignKeptClosedFormWhileExact ==
    /\ tensor.x.s = tensor.c0.s
    /\ (ClosedForm.odd < 2 ^ F32_PRECISION /\ ClosedForm.exp >= F32_EMIN)
          => EqualsClosedForm
    /\ tensor.x.m = 0 =>
          tensor.c0.e + (F32_PRECISION - 1) - tensor.below < F32_EMIN
    /\ tensor.logged \subseteq {tensor.x}

\* 0.25 halved 148 times: the float32 coefficient is exactly 0.
C25_Witness ==
    /\ tensor.c0 = [s |-> 1, m |-> 2 ^ 23, e |-> -25]
    /\ tensor.above = 0 /\ tensor.below = 148
    /\ tensor.x = [s |-> 1, m |-> 0, e |-> F32_EMIN]

(***************************************************************************)
(* Claims about the loss without a critic, checked under SpecLoss          *)
(***************************************************************************)

\* the (possibly masked) mean of -surrogate - entropy_coeff * entropy
MeanWithoutValueLoss ==
    MeanOverUnmasked([i \in 1 .. T(batch) |->
        RSub(RNeg(loss.surrogate_loss[i]),
             RMul(learner.entropy_coeff,
                  entropy(from_logits(batch.rows[i].curr_logits))))])

\* C26 (as stated): with use_critic false the loss never calls the value
\* function, the logged clipped and unclipped value losses are exactly 0,
\* and the returned loss is the (possibly masked) mean of
\* -surrogate - entropy_coeff * entropy, whatever vf_loss_coeff and
\* vf_clip_param are.
C26_NoCriticLossIsPolicyAndEntropy ==
    (loss.called /\ ~config.use_critic) =>
        /\ ~loss.compute_values_called
        /\ learner.metrics.vf_loss = Zero
        /\ learner.metrics.vf_loss_unclipped = Zero
        /\ loss.total_loss = MeanWithoutValueLoss

\* C26 (amended): with use_critic false the loss never calls the value
\* function, the logged clipped and unclipped value losses are exactly 0,
\* and the returned loss is the (possibly masked) mean of
\* -surrogate - entropy_coeff * entropy, plus kl_coeff * mean KL when
\* use_kl_loss is set, whatever vf_loss_coeff and vf_clip_param are.
C26_NoCriticNoValueTerm ==
    (loss.called /\ ~config.use_critic) =>
        /\ ~loss.compute_values_called
        /\ learner.metrics.vf_loss = Zero
        /\ learner.metrics.vf_loss_unclipped = Zero
        /\ loss.total_loss =
              IF config.use_kl_loss
                THEN RAdd(MeanWithoutValueLoss,
                          RMul(learner.curr_kl_coeff, MeanKL))
              ELSE MeanWithoutValueLoss

\* No critic, vf_loss_coeff 2 and vf_clip_param 1, on a timestep whose
\* squared value error (100) is not 0: the loss is a number and the value
\* function was not called.
C26_Witness ==
    /\ loss.called /\ ~config.use_critic
    /\ config.vf_loss_coeff = Rat(2, 1) /\ config.vf_clip_param = Rat(1, 1)
    /\ config.use_kl_loss
    /\ \E i \in Unmasked : vf_loss(batch.rows[i]) = Rat(100, 1)
    /\ MeanKL # Zero
    /\ ~IsNaN(loss.total_loss)
    /\ ~loss.compute_values_called

(***************************************************************************)
(* Claims about PPOTorchRLModule.compute_values, checked under SpecValues  *)
(***************************************************************************)

\* C29: compute_values never modifies the caller's batch mapping: a
\* stateful module with a separate critic encoder rewrites STATE_IN on a
\* copy, which is what the critic encoder is given; and when embeddings are
\* supplied it runs no encoder and applies only the value head to them.
C29_BatchUntouchedEmbeddingsReused ==
    values.called =>
        /\ values.heap[BATCH] = values.before
        /\ values.embeddings # "None" =>
              /\ values.ran = <<[net |-> "vf", object |-> 0,
                                 input |-> values.embeddings]>>
              /\ values.out = {squeeze(vf(values.embeddings))}
              /\ DOMAIN values.heap = {BATCH}
        /\ (values.embeddings = "None" /\ values.self.has_critic_encoder
              /\ values.self.is_stateful /\ ~values.raised) =>
              /\ Len(values.ran) = 2
              /\ values.ran[1].net = "critic_encoder"
              /\ values.ran[1].object # BATCH
              /\ values.ran[1].input =
                    SetItem(values.before, "state_in",
                            values.before.state_in.CRITIC)
              /\ values.ran[2].net = "vf"

\* A stateful module with a separate critic encoder called without
\* embeddings: the critic encoder ran on a dict whose STATE_IN is the
\* critic's state, and the caller's batch still holds both states.
C29_Witness ==
    /\ values.called /\ ~values.raised
    /\ values.embeddings = "None"
    /\ values.self.has_critic_encoder /\ values.self.is_stateful
    /\ values.heap[BATCH].state_in =
          [ACTOR |-> <<"h", "actor", 1>>, CRITIC |-> <<"h", "critic", 1>>]
    /\ values.ran[1].input.state_in = <<"h", "critic", 1>>
    /\ values.out # {}

=============================================================================
